---- MODULE Spec2Model ----
(***************************************************************************)
(* searcher-cli-starter: the Matcher (src/src/lib.rs 128-242) and the      *)
(* streaming line search search_lines (src/src/lib.rs 337-352).            *)
(*                                                                         *)
(* A String is a sequence of Unicode scalar values (integers), a byte      *)
(* stream a sequence of integers 0..255.  The standard library and the     *)
(* regex crate are modelled by what they do on the alphabets below:        *)
(* BufRead::lines / read_until, str::from_utf8, str::to_lowercase,         *)
(* str::contains, Regex::new and Regex::is_match.                          *)
(***************************************************************************)
EXTENDS Integers, Sequences, FiniteSets, TLC

VARIABLES
    args,        \* the (pattern, ignore_case, use_regex) handed to Matcher::new
    mres,        \* what Matcher::new returned: None yet, Ok(matcher) or Err
    input,       \* every byte the underlying reader will ever deliver
    rpos,        \* bytes the underlying reader has delivered so far
    cpos,        \* bytes BufReader has handed out (consume); buffer = input[cpos+1..rpos]
    cur,         \* read_until's Vec<u8>: the bytes of the line being assembled
    idx,         \* enumerate()'s counter: items lines() has yielded
    matches,     \* the local Vec<SearchMatch>
    tested,      \* observation: the contents is_match was called on, in order
    ioerrs,      \* observation: the kinds of error the underlying reader has returned
    pc,          \* "start", "ready", "loop", "done"; "probed" after a direct is_match
    result,      \* what search_lines returned: None yet, Ok(Vec) or Err(io::Error)
    line,        \* the &str handed to the last direct is_match call
    answer,      \* what that call returned
    bin,         \* the binary's own Matcher and search_lines call (main.rs), one record
    prev,        \* what the previous search_lines call over the same bytes returned
    runs,        \* the search_lines calls that share the Matcher, one record each
    opts,        \* the command line and the file system: does the file open, -n
    opened,      \* main has opened the file
    printed,     \* how many matches main's for loop has gone through
    stdout,      \* the chars main has written to standard output
    stderr,      \* the error chain the runtime printed for main's Err
    exit         \* the exit code of the process, -1 while it runs

\* what Matcher::new, Matcher::is_match and one search_lines call never touch
others == <<bin, prev, runs, opts, opened, printed, stdout, stderr, exit>>

vars == <<args, mres, input, rpos, cpos, cur, idx, matches, tested, ioerrs,
          pc, result, line, answer, bin, prev, runs, opts, opened, printed, stdout,
          stderr, exit>>

(***************************************************************************)
(* Bounds of the model.                                                    *)
(***************************************************************************)
MaxInput == 4

MaxChunk == 2

MaxPat == 2

MaxLine == 3

MaxRegexPat == 2

(***************************************************************************)
(* Sequences.                                                              *)
(***************************************************************************)
BoundedSeq(S, n) == UNION {[1..k -> S] : k \in 0..n}

Drop(s, n) == SubSeq(s, n + 1, Len(s))

Take(s, n) == SubSeq(s, 1, n)

Min(a, b) == IF a < b THEN a ELSE b

\* slice::ends_with for a one-element suffix
EndsWith(s, c) == Len(s) > 0 /\ s[Len(s)] = c

(***************************************************************************)
(* Characters and bytes.                                                   *)
(***************************************************************************)
LF == 10

CR == 13

SigmaUpper == 931

SigmaLower == 963

SigmaFinal == 962

\* str::from_utf8 on bytes below 0xE0: one-byte and two-byte sequences.
\* A lead byte 0xC2..0xDF needs one continuation byte 0x80..0xBF; 0x80..0xC1
\* can start nothing.  (Three- and four-byte leads do not occur in InputBytes.)
IsContinuation(b) == b >= 128 /\ b <= 191

RECURSIVE Utf8Chars(_)
Utf8Chars(bytes) ==
    IF bytes = <<>> THEN [ok |-> TRUE, chars |-> <<>>]
    ELSE LET b == bytes[1] IN
         IF b < 128
         THEN LET r == Utf8Chars(Drop(bytes, 1)) IN
              [ok |-> r.ok, chars |-> <<b>> \o r.chars]
         ELSE IF b >= 194 /\ b <= 223 /\ Len(bytes) >= 2 /\ IsContinuation(bytes[2])
         THEN LET r == Utf8Chars(Drop(bytes, 2)) IN
              [ok |-> r.ok, chars |-> <<(b - 192) * 64 + (bytes[2] - 128)>> \o r.chars]
         ELSE [ok |-> FALSE, chars |-> <<>>]

FromUtf8(bytes) == Utf8Chars(bytes)

(***************************************************************************)
(* str::to_lowercase (lib.rs 190, 234).  core::unicode tables, restricted  *)
(* to ASCII, the Greek sigmas, U+0130 and U+0307.                          *)
(***************************************************************************)
IsAsciiUpper(c) == c >= 65 /\ c <= 90

IsAsciiLower(c) == c >= 97 /\ c <= 122

\* core::unicode::Cased
Cased(c) == IsAsciiUpper(c) \/ IsAsciiLower(c)
            \/ c \in {SigmaUpper, SigmaLower, SigmaFinal, 304}

\* core::unicode::Case_Ignorable: ' . : ^ ` and the combining dot above
CaseIgnorable(c) == c \in {39, 46, 58, 94, 96, 775}

\* conversions::to_lower: the unconditional mapping of one char
CharToLower(c) ==
    IF IsAsciiUpper(c) THEN <<c + 32>>
    ELSE IF c = SigmaUpper THEN <<SigmaLower>>
    ELSE IF c = 304 THEN <<105, 775>>
    ELSE <<c>>

\* case_ignorable_then_cased: the first char that is not Case_Ignorable is Cased
RECURSIVE CaseIgnorableThenCased(_)
CaseIgnorableThenCased(s) ==
    IF s = <<>> THEN FALSE
    ELSE IF CaseIgnorable(s[1]) THEN CaseIgnorableThenCased(Drop(s, 1))
    ELSE Cased(s[1])

Reverse(s) == [i \in 1..Len(s) |-> s[Len(s) + 1 - i]]

\* map_uppercase_sigma: Final_Sigma is the one contextual mapping
MapUppercaseSigma(s, i) ==
    IF CaseIgnorableThenCased(Reverse(Take(s, i - 1)))
       /\ ~CaseIgnorableThenCased(Drop(s, i))
    THEN SigmaFinal ELSE SigmaLower

RECURSIVE LowerFrom(_, _)
LowerFrom(s, i) ==
    IF i > Len(s) THEN <<>>
    ELSE (IF s[i] = SigmaUpper THEN <<MapUppercaseSigma(s, i)>> ELSE CharToLower(s[i]))
         \o LowerFrom(s, i + 1)

ToLowercase(s) == LowerFrom(s, 1)

\* str::contains(&str): some window of the haystack equals the needle
Contains(hay, needle) ==
    \E i \in 0..(Len(hay) - Len(needle)) : SubSeq(hay, i + 1, i + Len(needle)) = needle

(***************************************************************************)
(* regex::Regex (lib.rs 185, 239), on the syntax the patterns below use:   *)
(* literals, . ^ $, the repetitions * + ?, groups ( ), the flag groups     *)
(* (?i) (?-i) (?i:...), and bracketed classes with negation and nesting.   *)
(* Escapes, counted repetition, alternation and class ranges are not       *)
(* modelled and do not occur in RegexAlphabet.                             *)
(***************************************************************************)
Meta == [lparen |-> 40, rparen |-> 41, star |-> 42, plus |-> 43, dash |-> 45,
         dot |-> 46, colon |-> 58, quest |-> 63, lbrack |-> 91, rbrack |-> 93,
         caret |-> 94, dollar |-> 36, flag_i |-> 105]

ParseError(kind) == [ok |-> FALSE, err |-> kind]

\* ParserI::parse_flags, after "(?": up to the closing ")" or ":".
\* state is "none", "on" or "off" for the one modelled flag, i.
RECURSIVE ParseFlags(_, _, _, _, _)
ParseFlags(p, i, negated, dangling, state) ==
    IF i > Len(p) THEN ParseError("FlagUnexpectedEof")
    ELSE LET c == p[i] IN
         IF c = Meta.rparen \/ c = Meta.colon
         THEN IF dangling THEN ParseError("FlagDanglingNegation")
              ELSE IF c = Meta.rparen /\ state = "none" /\ ~negated
              THEN ParseError("RepetitionMissing")
              ELSE [ok |-> TRUE, state |-> state, group |-> (c = Meta.colon), next |-> i + 1]
         ELSE IF c = Meta.dash
         THEN IF negated THEN ParseError("FlagRepeatedNegation")
              ELSE ParseFlags(p, i + 1, TRUE, TRUE, state)
         ELSE IF c = Meta.flag_i
         THEN IF state # "none" THEN ParseError("FlagDuplicate")
              ELSE ParseFlags(p, i + 1, negated, FALSE, IF negated THEN "off" ELSE "on")
         ELSE ParseError("FlagUnrecognized")

\* ParserI::parse_set_class: p[i] is the first char after "[" and an optional "^".
\* first: no item read yet, where "]" is a literal.
RECURSIVE ParseClassItems(_, _, _, _, _)
ParseClassItems(p, i, items, subs, first) ==
    IF i > Len(p) THEN ParseError("ClassUnclosed")
    ELSE LET c == p[i] IN
         IF c = Meta.rbrack /\ ~first
         THEN [ok |-> TRUE, items |-> items, subs |-> subs, next |-> i + 1]
         ELSE IF c = Meta.lbrack
         THEN LET neg == i + 1 <= Len(p) /\ p[i + 1] = Meta.caret
                  sub == ParseClassItems(p, IF neg THEN i + 2 ELSE i + 1, {}, <<>>, TRUE)
              IN  IF ~sub.ok THEN sub
                  ELSE ParseClassItems(p, sub.next, items,
                           Append(subs, [t |-> "class", neg |-> neg,
                                         items |-> sub.items, subs |-> sub.subs]),
                           FALSE)
         ELSE ParseClassItems(p, i + 1, items \cup {c}, subs, FALSE)

ParseClass(p, i) ==
    LET neg == i + 1 <= Len(p) /\ p[i + 1] = Meta.caret
        r   == ParseClassItems(p, IF neg THEN i + 2 ELSE i + 1, {}, <<>>, TRUE)
    IN  IF ~r.ok THEN r
        ELSE [ok |-> TRUE, next |-> r.next,
              ast |-> [t |-> "class", neg |-> neg, items |-> r.items, subs |-> r.subs]]

\* ParserI::parse_primitive
Primitive(c) ==
    IF c = Meta.dot THEN [t |-> "dot"]
    ELSE IF c = Meta.caret THEN [t |-> "bol"]
    ELSE IF c = Meta.dollar THEN [t |-> "eol"]
    ELSE [t |-> "lit", c |-> c]

RepetitionKind(c) ==
    IF c = Meta.star THEN "star" ELSE IF c = Meta.plus THEN "plus" ELSE "opt"

\* ParserI::parse_with_comments: the main loop, one concatenation; a group is
\* parsed by the recursive call (push_group / pop_group in the source).
RECURSIVE ParseConcat(_, _, _, _)
ParseConcat(p, i, acc, inGroup) ==
    IF i > Len(p)
    THEN IF inGroup THEN ParseError("GroupUnclosed")
         ELSE [ok |-> TRUE, asts |-> acc, next |-> i]
    ELSE LET c == p[i] IN
         IF c = Meta.rparen
         THEN IF inGroup THEN [ok |-> TRUE, asts |-> acc, next |-> i + 1]
              ELSE ParseError("GroupUnopened")
         ELSE IF c = Meta.lparen
         THEN IF i + 1 <= Len(p) /\ p[i + 1] = Meta.quest
              THEN LET f == ParseFlags(p, i + 2, FALSE, FALSE, "none") IN
                   IF ~f.ok THEN f
                   ELSE IF ~f.group
                   THEN ParseConcat(p, f.next, Append(acc, [t |-> "flags", state |-> f.state]),
                                    inGroup)
                   ELSE LET g == ParseConcat(p, f.next, <<>>, TRUE) IN
                        IF ~g.ok THEN g
                        ELSE ParseConcat(p, g.next,
                                 Append(acc, [t |-> "group", state |-> f.state, asts |-> g.asts]),
                                 inGroup)
              ELSE LET g == ParseConcat(p, i + 1, <<>>, TRUE) IN
                   IF ~g.ok THEN g
                   ELSE ParseConcat(p, g.next,
                            Append(acc, [t |-> "group", state |-> "none", asts |-> g.asts]),
                            inGroup)
         ELSE IF c = Meta.lbrack
         THEN LET k == ParseClass(p, i) IN
              IF ~k.ok THEN k
              ELSE ParseConcat(p, k.next, Append(acc, k.ast), inGroup)
         ELSE IF c \in {Meta.star, Meta.plus, Meta.quest}
         THEN IF acc = <<>> \/ acc[Len(acc)].t = "flags"
              THEN ParseError("RepetitionMissing")
              ELSE LET lazy == i + 1 <= Len(p) /\ p[i + 1] = Meta.quest
                       rep  == [t |-> "rep", kind |-> RepetitionKind(c),
                                sub |-> acc[Len(acc)]]
                   IN  ParseConcat(p, IF lazy THEN i + 2 ELSE i + 1,
                                   Append(Take(acc, Len(acc) - 1), rep), inGroup)
         ELSE ParseConcat(p, i + 1, Append(acc, Primitive(c)), inGroup)

\* Regex::new: Ok(compiled program) or Err(regex::Error::Syntax)
RegexNew(p) ==
    LET r == ParseConcat(p, 1, <<>>, FALSE) IN
    IF r.ok THEN [ok |-> TRUE, regex |-> r.asts] ELSE [ok |-> FALSE, err |-> r.err]

\* Unicode simple case folding (regex-syntax unicode_tables/case_folding_simple)
FoldOrbit(c) ==
    IF IsAsciiUpper(c) THEN {c, c + 32}
    ELSE IF IsAsciiLower(c) THEN {c, c - 32}
    ELSE IF c \in {SigmaUpper, SigmaLower, SigmaFinal} THEN {SigmaUpper, SigmaLower, SigmaFinal}
    ELSE {c}

Variants(c, ci) == IF ci THEN FoldOrbit(c) ELSE {c}

RECURSIVE InClass(_, _, _)
InClass(cls, c, ci) ==
    LET member == (Variants(c, ci) \cap cls.items # {})
                  \/ \E k \in 1..Len(cls.subs) : InClass(cls.subs[k], c, ci)
    IN  IF cls.neg THEN ~member ELSE member

FlagAfter(state, ci) == IF state = "on" THEN TRUE ELSE IF state = "off" THEN FALSE ELSE ci

\* The positions (chars consumed, 0..Len(s)) a match of the expression can end at,
\* having started at one of the positions in P.  ci: the (?i) flag in force.
RECURSIVE Ends(_, _, _, _)
RECURSIVE EndsSeq(_, _, _, _, _)
RECURSIVE EndsStar(_, _, _, _)
Ends(ast, s, P, ci) ==
    IF ast.t = "lit"
    THEN {i + 1 : i \in {j \in P : j < Len(s) /\ s[j + 1] \in Variants(ast.c, ci)}}
    ELSE IF ast.t = "dot"
    THEN {i + 1 : i \in {j \in P : j < Len(s) /\ s[j + 1] # LF}}
    ELSE IF ast.t = "class"
    THEN {i + 1 : i \in {j \in P : j < Len(s) /\ InClass(ast, s[j + 1], ci)}}
    ELSE IF ast.t = "bol" THEN P \cap {0}
    ELSE IF ast.t = "eol" THEN P \cap {Len(s)}
    ELSE IF ast.t = "group" THEN EndsSeq(ast.asts, 1, s, P, FlagAfter(ast.state, ci))
    ELSE IF ast.t = "rep"
    THEN IF ast.kind = "star" THEN EndsStar(ast.sub, s, P, ci)
         ELSE IF ast.kind = "plus" THEN EndsStar(ast.sub, s, Ends(ast.sub, s, P, ci), ci)
         ELSE P \cup Ends(ast.sub, s, P, ci)
    ELSE P

EndsStar(sub, s, P, ci) ==
    LET Q == P \cup Ends(sub, s, P, ci) IN
    IF Q = P THEN P ELSE EndsStar(sub, s, Q, ci)

EndsSeq(asts, k, s, P, ci) ==
    IF k > Len(asts) THEN P
    ELSE IF asts[k].t = "flags"
    THEN EndsSeq(asts, k + 1, s, P, FlagAfter(asts[k].state, ci))
    ELSE EndsSeq(asts, k + 1, s, Ends(asts[k], s, P, ci), ci)

\* RegexIsMatch with a plausible slip: the pattern has to match the whole line
RegexIsMatchWholeLine(regex, s) == Len(s) \in EndsSeq(regex, 1, s, {0}, FALSE)

\* Regex::is_match: an unanchored search, a match may start at any position
RegexIsMatch(regex, s) == EndsSeq(regex, 1, s, 0..Len(s), FALSE) # {}

\* InlineIgnoreCase with a plausible slip: the modifier is left out
InlineIgnoreCaseLeftOut(p) == p

\* format!("(?i){}", pattern)
InlineIgnoreCase(p) == <<Meta.lparen, Meta.quest, Meta.flag_i, Meta.rparen>> \o p

(***************************************************************************)
(* Matcher (lib.rs 128-242).                                               *)
(***************************************************************************)
\* Matcher::new with a plausible slip: a pattern that does not compile is
\* searched for as a literal instead of being refused
MatcherNewFallsBackToLiteral(pattern, ignore_case, use_regex) ==
    LET regex_pattern == IF ignore_case THEN InlineIgnoreCase(pattern) ELSE pattern
        compiled      == RegexNew(regex_pattern)
    IN  IF use_regex /\ compiled.ok
        THEN [tag |-> "Ok", matcher |-> [variant |-> "Regex", regex |-> compiled.regex]]
        ELSE [tag |-> "Ok",
              matcher |-> [variant |-> "Literal",
                           pattern |-> IF ignore_case THEN ToLowercase(pattern) ELSE pattern,
                           ignore_case |-> ignore_case]]

\* Matcher::new with a plausible slip: the literal pattern is stored as given
MatcherNewKeepsCase(pattern, ignore_case, use_regex) ==
    IF use_regex
    THEN LET regex_pattern == IF ignore_case THEN InlineIgnoreCase(pattern) ELSE pattern
             compiled      == RegexNew(regex_pattern)
         IN  IF compiled.ok
             THEN [tag |-> "Ok", matcher |-> [variant |-> "Regex", regex |-> compiled.regex]]
             ELSE [tag |-> "Err", context |-> "Invalid regex pattern", source |-> compiled.err]
    ELSE [tag |-> "Ok",
          matcher |-> [variant |-> "Literal", pattern |-> pattern,
                       ignore_case |-> ignore_case]]

\* Matcher::new with a plausible slip: the pattern is compiled before use_regex
\* is looked at, so a literal that is no regular expression is refused
MatcherNewAlwaysCompiles(pattern, ignore_case, use_regex) ==
    LET regex_pattern == IF ignore_case THEN InlineIgnoreCase(pattern) ELSE pattern
        compiled      == RegexNew(regex_pattern)
    IN  IF ~compiled.ok
        THEN [tag |-> "Err", context |-> "Invalid regex pattern", source |-> compiled.err]
        ELSE IF use_regex
        THEN [tag |-> "Ok", matcher |-> [variant |-> "Regex", regex |-> compiled.regex]]
        ELSE [tag |-> "Ok",
              matcher |-> [variant |-> "Literal",
                           pattern |-> IF ignore_case THEN ToLowercase(pattern) ELSE pattern,
                           ignore_case |-> ignore_case]]

\* Matcher::new
MatcherNew(pattern, ignore_case, use_regex) ==
    IF use_regex
    THEN LET regex_pattern == IF ignore_case THEN InlineIgnoreCase(pattern) ELSE pattern
             compiled      == RegexNew(regex_pattern)
         IN  IF compiled.ok
             THEN [tag |-> "Ok", matcher |-> [variant |-> "Regex", regex |-> compiled.regex]]
             ELSE [tag |-> "Err", context |-> "Invalid regex pattern", source |-> compiled.err]
    ELSE [tag |-> "Ok",
          matcher |-> [variant |-> "Literal",
                       pattern |-> IF ignore_case THEN ToLowercase(pattern) ELSE pattern,
                       ignore_case |-> ignore_case]]

\* Matcher::is_match with a plausible slip: the literal arm lowers the line
\* whatever ignore_case says
IsMatchAlwaysFolds(m, s) ==
    IF m.variant = "Literal"
    THEN Contains(ToLowercase(s), m.pattern)
    ELSE RegexIsMatch(m.regex, s)

IsMatchEmptyPatternNothing(m, s) ==
    IF m.variant = "Literal"
    THEN /\ m.pattern # <<>>
         /\ IF m.ignore_case THEN Contains(ToLowercase(s), m.pattern)
            ELSE Contains(s, m.pattern)
    ELSE RegexIsMatch(m.regex, s)

\* Matcher::is_match
IsMatch(m, s) ==
    IF m.variant = "Literal"
    THEN IF m.ignore_case THEN Contains(ToLowercase(s), m.pattern)
         ELSE Contains(s, m.pattern)
    ELSE RegexIsMatch(m.regex, s)

(***************************************************************************)
(* The values a run starts from.                                           *)
(***************************************************************************)
\* Stream bytes: "a", "\n", "\r" and the two bytes of U+03A3 (0xCE 0xA3), which
\* are invalid UTF-8 when they stand alone or in the wrong order.
InputBytes == {97, LF, CR, 206, 163}

\* Text: a A and the sigmas
TextAlphabet == {97, 65, SigmaUpper, SigmaLower}

\* Literal patterns may also hold "[", which no regular expression may end on
PatternAlphabet == TextAlphabet \cup {Meta.lbrack}

RegexAlphabet == {97, 65, Meta.dot, Meta.star, Meta.lbrack, Meta.rbrack, Meta.caret,
                  Meta.lparen, Meta.rparen}

RegexLineAlphabet == {97, 65}

\* std::io::ErrorKind values the reader may fail with
IoErrorKinds == {"Interrupted", "Other"}

MakeArgs(p, ic, re) == [pattern |-> p, ignore_case |-> ic, use_regex |-> re]

\* The matchers the searches run with: "a", "" and "Σ" (ignoring case) as
\* literals, "^a" and "[a" as regular expressions.
SearchArgs ==
    { MakeArgs(<<97>>, FALSE, FALSE),
      MakeArgs(<<>>, FALSE, FALSE),
      MakeArgs(<<>>, TRUE, FALSE),
      MakeArgs(<<SigmaUpper>>, TRUE, FALSE),
      MakeArgs(<<Meta.caret, 97>>, FALSE, TRUE),
      MakeArgs(<<Meta.lbrack, 97>>, FALSE, TRUE) }

None == [tag |-> "None"]

(***************************************************************************)
(* BufRead::lines (lib.rs 341): Lines::next after read_line has validated  *)
(* the bytes: a final "\n" is popped, then a final "\r".                   *)
(***************************************************************************)
StripLineEndingKeepsCR(chars) ==
    IF EndsWith(chars, LF) THEN Take(chars, Len(chars) - 1) ELSE chars

StripLineEnding(chars) ==
    IF EndsWith(chars, LF)
    THEN LET body == Take(chars, Len(chars) - 1) IN
         IF EndsWith(body, CR) THEN Take(body, Len(body) - 1) ELSE body
    ELSE chars

\* memchr(b'\n', available): the 1-based place of the first "\n", 0 when none
RECURSIVE Memchr(_, _)
Memchr(avail, i) ==
    IF i > Len(avail) THEN 0
    ELSE IF avail[i] = LF THEN i ELSE Memchr(avail, i + 1)

\* BufReader's buffer: delivered by the reader, not yet consumed
Available == SubSeq(input, cpos + 1, rpos)

InvalidUtf8 == [tag |-> "Err", kind |-> "InvalidData",
                message |-> "stream did not contain valid UTF-8"]

IoError(kind) == [tag |-> "Err", kind |-> kind, message |-> "read failed"]

(***************************************************************************)
(* Actions.                                                                *)
(***************************************************************************)
\* Matcher::new (lib.rs 178-197); the caller unwraps or returns on Err.
New ==
    /\ pc = "start"
    /\ mres' = MatcherNew(args.pattern, args.ignore_case, args.use_regex)
    /\ pc' = IF mres'.tag = "Ok" THEN "ready" ELSE "done"
    /\ UNCHANGED <<args, input, rpos, cpos, cur, idx, matches, tested, ioerrs,
                   result, line, answer>>
    /\ UNCHANGED others

\* Begin with a plausible slip: the matches are gathered in a buffer that
\* outlives the call and is not cleared
BeginKeepsMatches ==
    /\ pc = "ready"
    /\ matches' = matches
    /\ pc' = "loop"
    /\ UNCHANGED <<args, mres, input, rpos, cpos, cur, idx, tested, ioerrs,
                   result, line, answer>>
    /\ UNCHANGED others

\* search_lines entry (lib.rs 337-339)
Begin ==
    /\ pc = "ready"
    /\ matches' = <<>>
    /\ pc' = "loop"
    /\ UNCHANGED <<args, mres, input, rpos, cpos, cur, idx, tested, ioerrs,
                   result, line, answer>>
    /\ UNCHANGED others

\* Deliver with a plausible slip: a line whose content was already pushed is
\* not pushed again
DeliverDedup(raw) ==
    LET decoded == FromUtf8(raw) IN
    IF ~decoded.ok
    THEN /\ result' = InvalidUtf8
         /\ pc' = "done"
         /\ cur' = <<>>
         /\ UNCHANGED <<idx, matches, tested>>
    ELSE LET content == StripLineEnding(decoded.chars) IN
         /\ tested' = Append(tested, content)
         /\ matches' = IF IsMatch(mres.matcher, content)
                          /\ \A k \in 1..Len(matches) : matches[k].content # content
                       THEN Append(matches, [line_number |-> idx + 1, content |-> content])
                       ELSE matches
         /\ idx' = idx + 1
         /\ cur' = <<>>
         /\ UNCHANGED <<pc, result>>

\* Deliver with a plausible slip: enumerate()'s 0-based index is pushed as it is
DeliverZeroBased(raw) ==
    LET decoded == FromUtf8(raw) IN
    IF ~decoded.ok
    THEN /\ result' = InvalidUtf8
         /\ pc' = "done"
         /\ cur' = <<>>
         /\ UNCHANGED <<idx, matches, tested>>
    ELSE LET content == StripLineEnding(decoded.chars) IN
         /\ tested' = Append(tested, content)
         /\ matches' = IF IsMatch(mres.matcher, content)
                       THEN Append(matches, [line_number |-> idx, content |-> content])
                       ELSE matches
         /\ idx' = idx + 1
         /\ cur' = <<>>
         /\ UNCHANGED <<pc, result>>

\* Deliver with a plausible slip: a line that does not decode is skipped
\* (`let Ok(content) = line else { continue }`)
DeliverSkipsInvalid(raw) ==
    LET decoded == FromUtf8(raw) IN
    IF ~decoded.ok
    THEN /\ idx' = idx + 1
         /\ cur' = <<>>
         /\ UNCHANGED <<pc, result, matches, tested>>
    ELSE LET content == StripLineEnding(decoded.chars) IN
         /\ tested' = Append(tested, content)
         /\ matches' = IF IsMatch(mres.matcher, content)
                       THEN Append(matches, [line_number |-> idx + 1, content |-> content])
                       ELSE matches
         /\ idx' = idx + 1
         /\ cur' = <<>>
         /\ UNCHANGED <<pc, result>>

\* One item of lines().enumerate() and the loop body (lib.rs 341-349): raw is
\* the line read_until assembled, with its "\n" when it has one.
Deliver(raw) ==
    LET decoded == FromUtf8(raw) IN
    IF ~decoded.ok
    THEN /\ result' = InvalidUtf8
         /\ pc' = "done"
         /\ cur' = <<>>
         /\ UNCHANGED <<idx, matches, tested>>
    ELSE LET content == StripLineEnding(decoded.chars) IN
         /\ tested' = Append(tested, content)
         /\ matches' = IF IsMatch(mres.matcher, content)
                       THEN Append(matches, [line_number |-> idx + 1, content |-> content])
                       ELSE matches
         /\ idx' = idx + 1
         /\ cur' = <<>>
         /\ UNCHANGED <<pc, result>>

\* fill_buf with an empty buffer: the reader delivers 1..MaxChunk bytes
FillData ==
    /\ pc = "loop" /\ cpos = rpos /\ rpos < Len(input)
    /\ \E k \in 1..Min(MaxChunk, Len(input) - rpos) : rpos' = rpos + k
    /\ UNCHANGED <<args, mres, input, cpos, cur, idx, matches, tested, ioerrs,
                   pc, result, line, answer>>
    /\ UNCHANGED others

\* the reader fails with ErrorKind::Interrupted: read_until ignores it and
\* calls fill_buf again
FillInterrupted ==
    /\ pc = "loop" /\ cpos = rpos
    /\ ioerrs' = ioerrs \cup {"Interrupted"}
    /\ UNCHANGED <<args, mres, input, rpos, cpos, cur, idx, matches, tested,
                   pc, result, line, answer>>
    /\ UNCHANGED others

\* FillFails with a plausible slip: the read error ends the loop like end of
\* input, and what matched so far is returned
FillFailsReturnsPartial ==
    /\ pc = "loop" /\ cpos = rpos
    /\ \E kind \in IoErrorKinds \ {"Interrupted"} : ioerrs' = ioerrs \cup {kind}
    /\ result' = [tag |-> "Ok", matches |-> matches]
    /\ pc' = "done"
    /\ UNCHANGED <<args, mres, input, rpos, cpos, cur, idx, matches, tested,
                   line, answer>>
    /\ UNCHANGED others

\* the reader fails with any other kind: read_until returns it, `line?` returns it
FillFails ==
    /\ pc = "loop" /\ cpos = rpos
    /\ \E kind \in IoErrorKinds \ {"Interrupted"} :
          /\ ioerrs' = ioerrs \cup {kind}
          /\ result' = IoError(kind)
    /\ pc' = "done"
    /\ UNCHANGED <<args, mres, input, rpos, cpos, cur, idx, matches, tested,
                   line, answer>>
    /\ UNCHANGED others

\* FillEof with a plausible slip: a search that found nothing is an error
FillEofNothingFoundFails ==
    /\ pc = "loop" /\ cpos = rpos /\ rpos = Len(input)
    /\ IF cur = <<>>
       THEN /\ result' = IF matches = <<>> THEN IoError("UnexpectedEof")
                         ELSE [tag |-> "Ok", matches |-> matches]
            /\ pc' = "done"
            /\ UNCHANGED <<cur, idx, matches, tested>>
       ELSE Deliver(cur)
    /\ UNCHANGED <<args, mres, input, rpos, cpos, ioerrs, line, answer>>
    /\ UNCHANGED others

\* FillEof with a plausible slip: at the end of the input a line without
\* its "\n" is dropped
FillEofDropsUnterminated ==
    /\ pc = "loop" /\ cpos = rpos /\ rpos = Len(input)
    /\ result' = [tag |-> "Ok", matches |-> matches]
    /\ pc' = "done"
    /\ UNCHANGED <<cur, idx, matches, tested>>
    /\ UNCHANGED <<args, mres, input, rpos, cpos, ioerrs, line, answer>>
    /\ UNCHANGED others

\* the reader returns Ok(0): with nothing assembled lines() ends and
\* search_lines returns Ok(matches) (lib.rs 351); otherwise the unterminated
\* last line is delivered
FillEof ==
    /\ pc = "loop" /\ cpos = rpos /\ rpos = Len(input)
    /\ IF cur = <<>>
       THEN /\ result' = [tag |-> "Ok", matches |-> matches]
            /\ pc' = "done"
            /\ UNCHANGED <<cur, idx, matches, tested>>
       ELSE Deliver(cur)
    /\ UNCHANGED <<args, mres, input, rpos, cpos, ioerrs, line, answer>>
    /\ UNCHANGED others

\* read_until finds "\n" in the buffer: the line is complete
TakeLine ==
    /\ pc = "loop" /\ cpos < rpos
    /\ Memchr(Available, 1) > 0
    /\ cpos' = cpos + Memchr(Available, 1)
    /\ Deliver(cur \o Take(Available, Memchr(Available, 1)))
    /\ UNCHANGED <<args, mres, input, rpos, ioerrs, line, answer>>
    /\ UNCHANGED others

\* read_until finds no "\n": the whole buffer joins the line, and it loops
TakePartial ==
    /\ pc = "loop" /\ cpos < rpos
    /\ Memchr(Available, 1) = 0
    /\ cur' = cur \o Available
    /\ cpos' = rpos
    /\ UNCHANGED <<args, mres, input, rpos, idx, matches, tested, ioerrs,
                   pc, result, line, answer>>
    /\ UNCHANGED others

\* a direct call of Matcher::is_match (lib.rs 227-241) on a constructed Matcher
Probe ==
    /\ pc = "ready"
    /\ \E s \in BoundedSeq(IF args.use_regex THEN RegexLineAlphabet ELSE TextAlphabet,
                           MaxLine) :
          /\ line' = s
          /\ answer' = IsMatch(mres.matcher, s)
    /\ pc' = "probed"
    /\ UNCHANGED <<args, mres, input, rpos, cpos, cur, idx, matches, tested, ioerrs,
                   result>>
    /\ UNCHANGED others

\* the binary's copies before they are called
BinIdle == [mres |-> None, rpos |-> 0, cpos |-> 0, cur |-> <<>>, idx |-> 0,
            matches |-> <<>>, pc |-> "start", result |-> None]

\* no earlier call, no call sharing the Matcher, no call of the binary's copies
Alone == prev = None /\ runs = <<>> /\ bin = BinIdle

\* called as a library: no process around it
NoProcess ==
    /\ opts = [exists |-> TRUE, line_numbers |-> FALSE]
    /\ opened = FALSE /\ printed = 0 /\ stdout = <<>> /\ stderr = <<>> /\ exit = -1

Idle ==
    /\ mres = None /\ rpos = 0 /\ cpos = 0 /\ cur = <<>> /\ idx = 0
    /\ matches = <<>> /\ tested = <<>> /\ ioerrs = {} /\ pc = "start"
    /\ result = None /\ line = <<>> /\ answer = FALSE

\* Matcher::new, then search_lines over a stream
Init ==
    /\ args \in SearchArgs
    /\ input \in BoundedSeq(InputBytes, MaxInput)
    /\ Idle /\ Alone /\ NoProcess

Next ==
    \/ New
    \/ Begin
    \/ FillData
    \/ FillInterrupted
    \/ FillFails
    \/ FillEof
    \/ TakeLine
    \/ TakePartial

Spec == Init /\ [][Next]_vars

\* Matcher::new, then is_match on lines
\* the shapes of the patterns of the tests (lib.rs 503-596) over the letters
\* a and A: "a.a", "^aA", "aA$", "^a$", "[Aa]a", "aA+", "a.*A", and "[^a]",
\* "(?-i)a", "(?-i:a)A" for what an inline flag or a negation does under (?i)
RegexPatterns ==
    { <<97, Meta.dot, 97>>,
      <<Meta.caret, 97, 65>>,
      <<97, 65, Meta.dollar>>,
      <<Meta.caret, 97, Meta.dollar>>,
      <<Meta.lbrack, 65, 97, Meta.rbrack, 97>>,
      <<97, 65, Meta.plus>>,
      <<97, Meta.dot, Meta.star, 65>>,
      <<Meta.lbrack, Meta.caret, 97, Meta.rbrack>>,
      <<Meta.lparen, Meta.quest, Meta.dash, Meta.flag_i, Meta.rparen, 97>>,
      <<Meta.lparen, Meta.quest, Meta.dash, Meta.flag_i, Meta.colon, 97, Meta.rparen, 65>> }

MatcherArgs ==
    {MakeArgs(p, ic, FALSE) : p \in BoundedSeq(PatternAlphabet, MaxPat), ic \in BOOLEAN}
    \cup {MakeArgs(p, ic, TRUE) : p \in BoundedSeq(RegexAlphabet, MaxRegexPat), ic \in BOOLEAN}
    \cup {MakeArgs(p, ic, TRUE) : p \in RegexPatterns, ic \in BOOLEAN}

MatcherInit ==
    /\ args \in MatcherArgs
    /\ input = <<>>
    /\ Idle /\ Alone /\ NoProcess

MatcherNext ==
    \/ New
    \/ Probe

MatcherSpec == MatcherInit /\ [][MatcherNext]_vars

(***************************************************************************)
(* search_lines called again with the same Matcher and a new reader over   *)
(* the same bytes, once the first call has returned.                       *)
(***************************************************************************)
RerunArgs ==
    { MakeArgs(<<97>>, FALSE, FALSE),
      MakeArgs(<<Meta.caret, 97>>, FALSE, TRUE) }

\* the caller keeps the first result and calls again: the reader, the line
\* iterator and its index are new; the first call's Vec went to the caller
Rerun ==
    /\ pc = "done" /\ mres.tag = "Ok" /\ prev = None
    /\ prev' = result
    /\ result' = None
    /\ rpos' = 0 /\ cpos' = 0 /\ cur' = <<>> /\ idx' = 0
    /\ tested' = <<>> /\ ioerrs' = {}
    /\ pc' = "ready"
    /\ UNCHANGED <<args, mres, input, matches, line, answer, bin,
                   runs, opts, opened, printed, stdout, stderr, exit>>

RerunInit ==
    /\ args \in RerunArgs
    /\ input \in BoundedSeq(InputBytes, MaxInput)
    /\ Idle /\ Alone /\ NoProcess

RerunNext ==
    \/ Next
    \/ Rerun

RerunSpec == RerunInit /\ [][RerunNext]_vars

(***************************************************************************)
(* Several search_lines calls borrowing one Matcher (&Matcher is Sync: it  *)
(* has no interior mutability), each over its own in-memory stream, their  *)
(* steps interleaved.  Each call's locals are one record of runs.          *)
(***************************************************************************)
MaxShared == 2
Workers == {1, 2}
SharedBytes == {97, LF}
SharedArgs ==
    { MakeArgs(<<97>>, FALSE, FALSE),
      MakeArgs(<<Meta.caret, 97, Meta.dollar>>, FALSE, TRUE) }

\* the locals of a call that has not run yet, over the stream b
Fresh(b) == [input |-> b, rpos |-> 0, cpos |-> 0, cur |-> <<>>, idx |-> 0,
             matches |-> <<>>, pc |-> "ready", result |-> None]

RunAvailable(r) == SubSeq(r.input, r.cpos + 1, r.rpos)

\* SharedDeliver with a plausible slip: the matches are gathered in one buffer
\* that all the calls push to
SharedDeliverOneBuffer(w, raw) ==
    LET r       == runs[w]
        decoded == FromUtf8(raw)
        content == StripLineEnding(decoded.chars)
    IN  IF ~decoded.ok
        THEN [runs EXCEPT ![w] = [r EXCEPT !.result = InvalidUtf8, !.pc = "done",
                                           !.cur = <<>>]]
        ELSE [v \in Workers |->
                [runs[v] EXCEPT
                   !.matches = IF IsMatch(mres.matcher, content) /\ runs[v].pc = "loop"
                               THEN Append(@, [line_number |-> r.idx + 1,
                                               content |-> content])
                               ELSE @,
                   !.idx = IF v = w THEN @ + 1 ELSE @,
                   !.cur = IF v = w THEN <<>> ELSE @]]

\* one item of lines().enumerate() and the loop body (lib.rs 341-349) in call w:
\* is_match borrows the Matcher and writes to this call's locals only
SharedDeliver(w, raw) ==
    LET r       == runs[w]
        decoded == FromUtf8(raw)
        content == StripLineEnding(decoded.chars)
    IN  IF ~decoded.ok
        THEN [runs EXCEPT ![w] = [r EXCEPT !.result = InvalidUtf8, !.pc = "done",
                                           !.cur = <<>>]]
        ELSE [runs EXCEPT ![w] =
                [r EXCEPT
                   !.matches = IF IsMatch(mres.matcher, content)
                               THEN Append(@, [line_number |-> r.idx + 1,
                                               content |-> content])
                               ELSE @,
                   !.idx = @ + 1,
                   !.cur = <<>>]]

SharedFrame ==
    UNCHANGED <<args, mres, input, rpos, cpos, cur, idx, matches, tested, ioerrs,
                pc, result, line, answer, bin, prev, opts, opened, printed, stdout,
                stderr, exit>>

\* search_lines entry in call w (lib.rs 337-339)
SharedBegin ==
    /\ pc = "ready"
    /\ \E w \in Workers :
          /\ runs[w].pc = "ready"
          /\ runs' = [runs EXCEPT ![w].matches = <<>>, ![w].pc = "loop"]
    /\ SharedFrame

\* fill_buf with an empty buffer in call w
SharedFillData ==
    /\ pc = "ready"
    /\ \E w \in Workers :
          /\ runs[w].pc = "loop" /\ runs[w].cpos = runs[w].rpos
          /\ runs[w].rpos < Len(runs[w].input)
          /\ \E k \in 1..Min(MaxChunk, Len(runs[w].input) - runs[w].rpos) :
                runs' = [runs EXCEPT ![w].rpos = @ + k]
    /\ SharedFrame

\* the stream of call w is at its end (lib.rs 351, or the unterminated last line)
SharedFillEof ==
    /\ pc = "ready"
    /\ \E w \in Workers :
          /\ runs[w].pc = "loop" /\ runs[w].cpos = runs[w].rpos
          /\ runs[w].rpos = Len(runs[w].input)
          /\ runs' = IF runs[w].cur = <<>>
                     THEN [runs EXCEPT
                             ![w].result = [tag |-> "Ok", matches |-> runs[w].matches],
                             ![w].pc = "done"]
                     ELSE SharedDeliver(w, runs[w].cur)
    /\ SharedFrame

\* read_until in call w finds "\n" in the buffer
SharedTakeLine ==
    /\ pc = "ready"
    /\ \E w \in Workers :
          LET avail == RunAvailable(runs[w])
              n     == Memchr(avail, 1)
          IN  /\ runs[w].pc = "loop" /\ runs[w].cpos < runs[w].rpos
              /\ n > 0
              /\ runs' = [SharedDeliver(w, runs[w].cur \o Take(avail, n))
                            EXCEPT ![w].cpos = @ + n]
    /\ SharedFrame

\* read_until in call w finds no "\n" in the buffer
SharedTakePartial ==
    /\ pc = "ready"
    /\ \E w \in Workers :
          LET avail == RunAvailable(runs[w]) IN
          /\ runs[w].pc = "loop" /\ runs[w].cpos < runs[w].rpos
          /\ Memchr(avail, 1) = 0
          /\ runs' = [runs EXCEPT ![w].cur = @ \o avail, ![w].cpos = runs[w].rpos]
    /\ SharedFrame

SharedInit ==
    /\ args \in SharedArgs
    /\ input = <<>>
    /\ Idle /\ prev = None /\ bin = BinIdle /\ NoProcess
    /\ runs \in [Workers -> {Fresh(b) : b \in BoundedSeq(SharedBytes, MaxShared)}]

SharedNext ==
    \/ New
    \/ SharedBegin
    \/ SharedFillData
    \/ SharedFillEof
    \/ SharedTakeLine
    \/ SharedTakePartial

SharedSpec == SharedInit /\ [][SharedNext]_vars

(***************************************************************************)
(* The lines of a byte stream, stated from the positions of its "\n"       *)
(* bytes: line k runs from after the (k-1)-th "\n" to before the k-th, a   *)
(* last piece with no "\n" after it is a line when it is not empty, and a  *)
(* "\r" right before the "\n" belongs to the terminator.                   *)
(***************************************************************************)
LFCount(b) == Cardinality({i \in 1..Len(b) : b[i] = LF})

NumLines(b) == LFCount(b) + (IF Len(b) > 0 /\ b[Len(b)] # LF THEN 1 ELSE 0)

NthLF(b, k) ==
    IF k = 0 THEN 0
    ELSE CHOOSE i \in 1..Len(b) :
            b[i] = LF /\ Cardinality({j \in 1..i : b[j] = LF}) = k

\* the bytes of line k with its terminator
LineSpan(b, k) ==
    SubSeq(b, NthLF(b, k - 1) + 1, IF k <= LFCount(b) THEN NthLF(b, k) ELSE Len(b))

\* the bytes of line k without its terminator
LineBytes(b, k) ==
    LET span == LineSpan(b, k)
        n    == Len(span)
    IN  IF n >= 2 /\ span[n] = LF /\ span[n - 1] = CR THEN SubSeq(span, 1, n - 2)
        ELSE IF n >= 1 /\ span[n] = LF THEN SubSeq(span, 1, n - 1)
        ELSE span

LineDecodes(b, k) == FromUtf8(LineBytes(b, k)).ok

LineText(b, k) == FromUtf8(LineBytes(b, k)).chars

Decodable(b) == \A k \in 1..NumLines(b) : LineDecodes(b, k)

\* the first line that does not decode (of a stream that has one)
FirstBadLine(b) ==
    CHOOSE k \in 1..NumLines(b) :
        ~LineDecodes(b, k) /\ \A j \in 1..(k - 1) : LineDecodes(b, j)

\* the reader has failed with an error read_until does not ignore
ReadFailed == ioerrs \ {"Interrupted"} # {}

Returned == pc = "done" /\ mres.tag = "Ok"

ExpectedMatches(b, m) ==
    SelectSeq([k \in 1..NumLines(b) |-> [line_number |-> k, content |-> LineText(b, k)]],
              LAMBDA r : IsMatch(m, r.content))

(***************************************************************************)
(* The command line program (main.rs 139-157).  main.rs carries its own    *)
(* copies of Matcher and search_lines, the same text as lib.rs line for    *)
(* line; New and the reader actions stand for them here.                   *)
(***************************************************************************)
CliBytes == {97, LF, 163}
CliArgs ==
    { MakeArgs(<<97>>, FALSE, FALSE),
      MakeArgs(<<Meta.caret, 97>>, FALSE, TRUE),
      MakeArgs(<<Meta.lbrack, 97>>, FALSE, TRUE) }

\* std::io::ErrorKind values File::open may fail with
OpenErrorKinds == {"NotFound", "PermissionDenied"}

\* Display for usize: the decimal digits
RECURSIVE Digits(_)
Digits(n) == IF n < 10 THEN <<48 + n>> ELSE Digits(n \div 10) \o <<48 + (n % 10)>>

\* println!("{}:{}", line_number, content) or println!("{}", content)
Println(m, line_numbers) ==
    (IF line_numbers THEN Digits(m.line_number) \o <<Meta.colon>> ELSE <<>>)
        \o m.content \o <<LF>>

CliFrame ==
    UNCHANGED <<args, mres, input, rpos, cpos, cur, idx, matches, tested, ioerrs,
                result, line, answer, bin, prev, runs, opts>>

\* CliOpen with a plausible slip: the pattern is compiled before the file is
\* opened
CliOpenAfterCompile ==
    /\ pc = "main"
    /\ LET m == MatcherNew(args.pattern, args.ignore_case, args.use_regex) IN
       IF m.tag = "Err"
       THEN /\ stderr' = <<m.context, m.source>>
            /\ exit' = 1
            /\ pc' = "exited"
            /\ UNCHANGED opened
       ELSE IF opts.exists
       THEN /\ opened' = TRUE
            /\ pc' = "start"
            /\ UNCHANGED <<stderr, exit>>
       ELSE /\ \E kind \in OpenErrorKinds : stderr' = <<"Could not read file", kind>>
            /\ exit' = 1
            /\ pc' = "exited"
            /\ UNCHANGED opened
    /\ UNCHANGED <<printed, stdout>>
    /\ CliFrame

\* File::open(&args.path).with_context(..)? (main.rs 142-143): on Err main
\* returns it, the runtime prints the error chain and exits with 1
CliOpen ==
    /\ pc = "main"
    /\ IF opts.exists
       THEN /\ opened' = TRUE
            /\ pc' = "start"
            /\ UNCHANGED <<stderr, exit>>
       ELSE /\ \E kind \in OpenErrorKinds : stderr' = <<"Could not read file", kind>>
            /\ exit' = 1
            /\ pc' = "exited"
            /\ UNCHANGED opened
    /\ UNCHANGED <<printed, stdout>>
    /\ CliFrame

\* the ? after Matcher::new (main.rs 145) or after search_lines (main.rs 146):
\* main returns the Err, the runtime prints the error chain and exits with 1
CliFail ==
    /\ pc = "done" /\ opened
    /\ mres.tag = "Err" \/ result.tag = "Err"
    /\ stderr' = IF mres.tag = "Err" THEN <<mres.context, mres.source>>
                 ELSE <<result.message>>
    /\ exit' = 1
    /\ pc' = "exited"
    /\ UNCHANGED <<opened, printed, stdout>>
    /\ CliFrame

\* CliPrint with a plausible slip: every match is printed with its number
CliPrintAlwaysNumbers ==
    /\ pc = "done" /\ opened
    /\ result.tag = "Ok" /\ printed < Len(result.matches)
    /\ stdout' = stdout \o Println(result.matches[printed + 1], TRUE)
    /\ printed' = printed + 1
    /\ UNCHANGED <<pc, opened, stderr, exit>>
    /\ CliFrame

\* CliPrint with a plausible slip: a match is printed as soon as it is found
CliPrintAsFound ==
    /\ pc \in {"loop", "done"} /\ opened
    /\ printed < Len(matches)
    /\ stdout' = stdout \o Println(matches[printed + 1], opts.line_numbers)
    /\ printed' = printed + 1
    /\ UNCHANGED <<pc, opened, stderr, exit>>
    /\ CliFrame

\* one turn of `for search_match in matches` (main.rs 148-154)
CliPrint ==
    /\ pc = "done" /\ opened
    /\ result.tag = "Ok" /\ printed < Len(result.matches)
    /\ stdout' = stdout \o Println(result.matches[printed + 1], opts.line_numbers)
    /\ printed' = printed + 1
    /\ UNCHANGED <<pc, opened, stderr, exit>>
    /\ CliFrame

\* CliExit with a plausible slip: a search that found nothing exits with 1,
\* as grep does
CliExitNothingFoundFails ==
    /\ pc = "done" /\ opened
    /\ result.tag = "Ok" /\ printed = Len(result.matches)
    /\ exit' = IF result.matches = <<>> THEN 1 ELSE 0
    /\ pc' = "exited"
    /\ UNCHANGED <<opened, printed, stdout, stderr>>
    /\ CliFrame

\* the loop is over: Ok(()) (main.rs 156), the process exits with 0
CliExit ==
    /\ pc = "done" /\ opened
    /\ result.tag = "Ok" /\ printed = Len(result.matches)
    /\ exit' = 0
    /\ pc' = "exited"
    /\ UNCHANGED <<opened, printed, stdout, stderr>>
    /\ CliFrame

\* Cli::parse() (main.rs 140) has the arguments; the file at args.path opens
\* or does not, and holds the bytes of input
CliInit ==
    /\ args \in CliArgs
    /\ opts \in [exists : BOOLEAN, line_numbers : BOOLEAN]
    /\ input \in IF opts.exists THEN BoundedSeq(CliBytes, MaxInput) ELSE {<<>>}
    /\ mres = None /\ rpos = 0 /\ cpos = 0 /\ cur = <<>> /\ idx = 0
    /\ matches = <<>> /\ tested = <<>> /\ ioerrs = {} /\ pc = "main"
    /\ result = None /\ line = <<>> /\ answer = FALSE
    /\ Alone
    /\ opened = FALSE /\ printed = 0 /\ stdout = <<>> /\ stderr = <<>> /\ exit = -1

CliNext ==
    \/ CliOpen
    \/ New
    \/ Begin
    \/ FillData
    \/ FillInterrupted
    \/ FillFails
    \/ FillEof
    \/ TakeLine
    \/ TakePartial
    \/ CliFail
    \/ CliPrint
    \/ CliExit

CliSpec == CliInit /\ [][CliNext]_vars

(***************************************************************************)
(* The binary's private Matcher and search_lines (main.rs 44-87, 122-137), *)
(* translated from main.rs, called with the arguments and the bytes the    *)
(* library's were called with, once the library's call is over.  The       *)
(* locals of the binary's call are the record bin.  Both calls read the    *)
(* bytes from memory (a Cursor, as in the tests): no read fails.           *)
(***************************************************************************)
EquivArgs ==
    { MakeArgs(<<97>>, FALSE, FALSE),
      MakeArgs(<<SigmaUpper>>, TRUE, FALSE),
      MakeArgs(<<Meta.caret, 97>>, FALSE, TRUE),
      MakeArgs(<<65>>, TRUE, TRUE),
      MakeArgs(<<Meta.lbrack, 97>>, FALSE, TRUE) }

\* Matcher::new of main.rs (44-63)
BinMatcherNew(pattern, ignore_case, use_regex) ==
    IF use_regex
    THEN LET regex_pattern == IF ignore_case THEN InlineIgnoreCase(pattern) ELSE pattern
             compiled      == RegexNew(regex_pattern)
         IN  IF compiled.ok
             THEN [tag |-> "Ok", matcher |-> [variant |-> "Regex", regex |-> compiled.regex]]
             ELSE [tag |-> "Err", context |-> "Invalid regex pattern", source |-> compiled.err]
    ELSE [tag |-> "Ok",
          matcher |-> [variant |-> "Literal",
                       pattern |-> IF ignore_case THEN ToLowercase(pattern) ELSE pattern,
                       ignore_case |-> ignore_case]]

\* BinIsMatch with a plausible slip: the copy was left behind when the library
\* learned ignore_case, and does not lower the line
BinIsMatchLeftBehind(m, s) ==
    IF m.variant = "Literal"
    THEN Contains(s, m.pattern)
    ELSE RegexIsMatch(m.regex, s)

\* Matcher::is_match of main.rs (74-86)
BinIsMatch(m, s) ==
    IF m.variant = "Literal"
    THEN IF m.ignore_case THEN Contains(ToLowercase(s), m.pattern)
         ELSE Contains(s, m.pattern)
    ELSE RegexIsMatch(m.regex, s)

BinAvailable == SubSeq(input, bin.cpos + 1, bin.rpos)

\* one item of lines().enumerate() and the loop body of main.rs (126-134)
BinDeliver(raw) ==
    LET decoded == FromUtf8(raw)
        content == StripLineEnding(decoded.chars)
    IN  IF ~decoded.ok
        THEN [bin EXCEPT !.result = InvalidUtf8, !.pc = "done", !.cur = <<>>]
        ELSE [bin EXCEPT
                !.matches = IF BinIsMatch(bin.mres.matcher, content)
                            THEN Append(@, [line_number |-> bin.idx + 1,
                                            content |-> content])
                            ELSE @,
                !.idx = @ + 1,
                !.cur = <<>>]

BinFrame ==
    UNCHANGED <<args, mres, input, rpos, cpos, cur, idx, matches, tested, ioerrs,
                pc, result, line, answer, prev, runs, opts, opened, printed, stdout,
                stderr, exit>>

\* Matcher::new of main.rs, with the arguments the library's was called with
BinNew ==
    /\ pc = "done" /\ bin.pc = "start"
    /\ LET m == BinMatcherNew(args.pattern, args.ignore_case, args.use_regex) IN
       bin' = [bin EXCEPT !.mres = m, !.pc = IF m.tag = "Ok" THEN "ready" ELSE "done"]
    /\ BinFrame

\* search_lines of main.rs, entry (122-124)
BinBegin ==
    /\ pc = "done" /\ bin.pc = "ready"
    /\ bin' = [bin EXCEPT !.matches = <<>>, !.pc = "loop"]
    /\ BinFrame

\* fill_buf with an empty buffer: the reader delivers 1..MaxChunk bytes
BinFillData ==
    /\ pc = "done" /\ bin.pc = "loop"
    /\ bin.cpos = bin.rpos /\ bin.rpos < Len(input)
    /\ \E k \in 1..Min(MaxChunk, Len(input) - bin.rpos) :
          bin' = [bin EXCEPT !.rpos = @ + k]
    /\ BinFrame

\* the reader returns Ok(0): Ok(matches) (main.rs 136), or the unterminated
\* last line is delivered
BinFillEof ==
    /\ pc = "done" /\ bin.pc = "loop"
    /\ bin.cpos = bin.rpos /\ bin.rpos = Len(input)
    /\ bin' = IF bin.cur = <<>>
              THEN [bin EXCEPT !.result = [tag |-> "Ok", matches |-> bin.matches],
                               !.pc = "done"]
              ELSE BinDeliver(bin.cur)
    /\ BinFrame

\* read_until finds "\n" in the buffer
BinTakeLine ==
    /\ pc = "done" /\ bin.pc = "loop"
    /\ bin.cpos < bin.rpos
    /\ LET n == Memchr(BinAvailable, 1) IN
       /\ n > 0
       /\ bin' = [BinDeliver(bin.cur \o Take(BinAvailable, n)) EXCEPT !.cpos = @ + n]
    /\ BinFrame

\* read_until finds no "\n" in the buffer
BinTakePartial ==
    /\ pc = "done" /\ bin.pc = "loop"
    /\ bin.cpos < bin.rpos
    /\ Memchr(BinAvailable, 1) = 0
    /\ bin' = [bin EXCEPT !.cur = @ \o BinAvailable, !.cpos = bin.rpos]
    /\ BinFrame

EquivInit ==
    /\ args \in EquivArgs
    /\ input \in BoundedSeq(InputBytes, MaxInput)
    /\ Idle /\ Alone /\ NoProcess

EquivNext ==
    \/ New
    \/ Begin
    \/ FillData
    \/ FillEof
    \/ TakeLine
    \/ TakePartial
    \/ BinNew
    \/ BinBegin
    \/ BinFillData
    \/ BinFillEof
    \/ BinTakeLine
    \/ BinTakePartial

EquivSpec == EquivInit /\ [][EquivNext]_vars

(***************************************************************************)
(* Claims on search_lines (specification Spec).                            *)
(***************************************************************************)
\* C1: over an input that decodes, read without a failing read, search_lines
\* returns Ok with exactly the records (k, line k) of the lines the matcher
\* matches, in ascending k: none left out, none added, equal lines at different
\* places both present, each matching line once.
C1_ExactlyTheMatchingLines ==
    (Returned /\ Decodable(input) /\ ~ReadFailed)
        => /\ result.tag = "Ok"
           /\ result.matches = ExpectedMatches(input, mres.matcher)

\* C1 witness: a returned search with two equal matching lines at different
\* places and a line in between that did not match
C1_Witness ==
    /\ Returned /\ result.tag = "Ok"
    /\ Len(result.matches) = 2
    /\ result.matches[1].content = result.matches[2].content
    /\ result.matches[1].line_number = 1
    /\ result.matches[2].line_number = 3

\* C2: in the returned sequence every line_number is at least 1, the numbers
\* increase strictly, and each is the place of its line in the input, counting
\* every line.
C2_LineNumbersArePositions ==
    (Returned /\ result.tag = "Ok")
        => /\ \A k \in 1..Len(result.matches) :
                 /\ result.matches[k].line_number >= 1
                 /\ result.matches[k].line_number <= NumLines(input)
                 /\ result.matches[k].content = LineText(input, result.matches[k].line_number)
           /\ \A j, k \in 1..Len(result.matches) :
                 j < k => result.matches[j].line_number < result.matches[k].line_number

\* C2 witness: two matches returned, the first of them after a line that did not match
C2_Witness ==
    /\ Returned /\ result.tag = "Ok"
    /\ Len(result.matches) = 2
    /\ result.matches[1].line_number = 2

\* C3 as stated: a line that does not decode fails the call with an error that
\* carries the index of that line.
C3_ErrorCarriesLineIndex ==
    (Returned /\ ~Decodable(input) /\ ~ReadFailed)
        => /\ result.tag = "Err"
           /\ result.kind = "InvalidData"
           /\ "line" \in DOMAIN result
           /\ result.line = FirstBadLine(input)

\* C3 amended: a line that does not decode fails the call with the InvalidData
\* error of the standard library, which names no line; the lines before it, and
\* only they, were tested, nothing after the bad line was consumed, and the
\* error holds none of the matches found before it.
C3_InvalidLineAborts ==
    /\ ~Decodable(input) => Len(tested) < FirstBadLine(input)
    /\ (Returned /\ ~Decodable(input) /\ ~ReadFailed)
          => /\ result = InvalidUtf8
             /\ DOMAIN result = {"tag", "kind", "message"}
             /\ tested = [k \in 1..(FirstBadLine(input) - 1) |-> LineText(input, k)]
             /\ cpos <= Len(input)
             /\ cpos = IF FirstBadLine(input) <= LFCount(input)
                       THEN NthLF(input, FirstBadLine(input)) ELSE Len(input)

\* C3 witness: the call failed on a bad line after an earlier line had matched,
\* with input left behind the bad line
C3_Witness ==
    /\ Returned /\ result = InvalidUtf8
    /\ matches # <<>>
    /\ cpos < Len(input)

C6_NothingFoundIsOk ==
    (Returned /\ ~ReadFailed /\ Decodable(input)
       /\ \A k \in 1..NumLines(input) : ~IsMatch(mres.matcher, LineText(input, k)))
        => result = [tag |-> "Ok", matches |-> <<>>]

\* C6 witness: a returned search over several lines, none of them matched
C6_Witness ==
    /\ Returned /\ result = [tag |-> "Ok", matches |-> <<>>]
    /\ NumLines(input) >= 2
    /\ idx = NumLines(input)

(***************************************************************************)
(* Claims on the Matcher (specification MatcherSpec).                      *)
(***************************************************************************)
\* p occurs in s as a run of consecutive characters
OccursIn(p, s) ==
    \E off \in 0..Len(s) :
        /\ off + Len(p) <= Len(s)
        /\ \A k \in 1..Len(p) : s[off + k] = p[k]

\* one character is the other, or its capital
CasePair(c, d) ==
    \/ c = d
    \/ {c, d} \in {{65, 97}, {SigmaUpper, SigmaLower}, {SigmaUpper, SigmaFinal}}

\* two strings that differ in letter case at most
SameButForCase(p, q) ==
    /\ Len(p) = Len(q)
    /\ \A k \in 1..Len(p) : CasePair(p[k], q[k])

\* the pattern itself is no regular expression
Malformed(p) == ~RegexNew(p).ok

\* C5: with use_regex a malformed pattern makes Matcher::new return the error
\* "Invalid regex pattern" and no Matcher, with and without ignore_case; so
\* every Matcher is_match is called on holds a compiled expression, and is_match
\* answers true or false.
C5_MalformedPatternFailsConstruction ==
    /\ (pc # "start" /\ args.use_regex /\ Malformed(args.pattern))
          => /\ pc = "done"
             /\ mres.tag = "Err"
             /\ mres.context = "Invalid regex pattern"
             /\ "matcher" \notin DOMAIN mres
    /\ (pc = "probed" /\ args.use_regex)
          => /\ ~Malformed(args.pattern)
             /\ mres.matcher.variant = "Regex"
             /\ answer \in BOOLEAN

\* C5 witness: "[a" with ignore_case and use_regex was refused
C5_Witness ==
    /\ pc = "done" /\ mres.tag = "Err"
    /\ args = MakeArgs(<<Meta.lbrack, 97>>, TRUE, TRUE)

\* C7: a case-sensitive literal matches exactly the lines the pattern occurs
\* in as given; a line that is the pattern but for letter case does not match.
C7_CaseSensitiveLiteral ==
    (pc = "probed" /\ ~args.use_regex /\ ~args.ignore_case)
        => /\ answer <=> OccursIn(args.pattern, line)
           /\ (line # args.pattern /\ SameButForCase(line, args.pattern)) => ~answer

\* C7 witness: the line is the pattern in another case and was not matched
C7_Witness ==
    /\ pc = "probed" /\ ~args.use_regex /\ ~args.ignore_case
    /\ Len(args.pattern) = 2
    /\ line # args.pattern /\ SameButForCase(line, args.pattern)
    /\ ~answer

\* C8: a case-insensitive literal stores the lowercasing of the pattern it was
\* given, and matches exactly the lines whose lowercasing the stored pattern
\* occurs in.
C8_CaseInsensitiveLiteral ==
    (pc \in {"ready", "probed"} /\ ~args.use_regex /\ args.ignore_case)
        => /\ mres.matcher.pattern = ToLowercase(args.pattern)
           /\ pc = "probed"
                 => (answer <=> OccursIn(ToLowercase(args.pattern), ToLowercase(line)))

\* C8 witness: a pattern with a capital matched a line with a capital
C8_Witness ==
    /\ pc = "probed" /\ ~args.use_regex /\ args.ignore_case
    /\ mres.matcher.pattern # args.pattern
    /\ line # ToLowercase(line)
    /\ ~OccursIn(args.pattern, line)
    /\ answer

\* C9: a case-insensitive literal answers the same for every pattern that is
\* the given one but for letter case.
C9_RecasingThePattern ==
    (pc = "probed" /\ ~args.use_regex /\ args.ignore_case)
        => \A q \in BoundedSeq(TextAlphabet, MaxPat) :
              SameButForCase(q, args.pattern)
                  => IsMatch(MatcherNew(q, TRUE, FALSE).matcher, line) = answer

\* C10: without use_regex Matcher::new returns a Literal matcher for every
\* pattern, the empty one included, with and without ignore_case.
C10_LiteralConstructionNeverFails ==
    (pc # "start" /\ ~args.use_regex)
        => /\ mres.tag = "Ok"
           /\ mres.matcher.variant = "Literal"
           /\ pc # "done"

\* C10 witness: the empty pattern with ignore_case gave a Matcher
C10_Witness ==
    /\ pc = "ready" /\ mres.tag = "Ok"
    /\ args = MakeArgs(<<>>, TRUE, FALSE)

(***************************************************************************)
(* Claims on the empty literal pattern (specification Spec).               *)
(***************************************************************************)
\* C11: with a literal Matcher built from the empty pattern, whatever
\* ignore_case is, every line handed to is_match matches (the empty line too),
\* so the matches gathered so far are the lines tested so far, numbered from 1,
\* and a search over a decodable input read without a failing read returns
\* every line of the input, numbered 1..n.
C11_EmptyPatternMatchesEveryLine ==
    (mres.tag = "Ok" /\ ~args.use_regex /\ args.pattern = <<>> /\ pc \in {"loop", "done"})
        => /\ matches = [k \in 1..Len(tested) |->
                            [line_number |-> k, content |-> tested[k]]]
           /\ (pc = "done" /\ Decodable(input) /\ ~ReadFailed)
                => result = [tag |-> "Ok",
                             matches |-> [k \in 1..NumLines(input) |->
                                 [line_number |-> k, content |-> LineText(input, k)]]]

\* C11 witness: a search with the empty pattern and ignore_case set returned
\* three lines, an empty one among them
C11_Witness ==
    /\ Returned /\ ~args.use_regex /\ args.pattern = <<>> /\ args.ignore_case
    /\ result.tag = "Ok" /\ Len(result.matches) = 3
    /\ \E k \in 1..3 : result.matches[k].content = <<>>
    /\ \E k \in 1..3 : result.matches[k].content # <<>>

(***************************************************************************)
(* Claims on a shared Matcher (specification SharedSpec).                  *)
(***************************************************************************)
\* what search_lines returns over the stream b with the matcher m when it is
\* the only call (C1, C3)
AloneResult(b, m) ==
    IF Decodable(b) THEN [tag |-> "Ok", matches |-> ExpectedMatches(b, m)]
    ELSE InvalidUtf8

\* C12: is_match never changes the Matcher: while calls that share it run, it
\* stays the value Matcher::new returned; and under every interleaving of the
\* calls' steps, each call that has returned has returned exactly what it
\* returns when it runs alone over its stream, and each call still running has
\* gathered only matches of its own stream.
C12_SharedMatcherIndependentResults ==
    pc # "start" =>
        /\ mres = MatcherNew(args.pattern, args.ignore_case, args.use_regex)
        /\ \A w \in Workers :
              /\ runs[w].pc = "done"
                   => runs[w].result = AloneResult(runs[w].input, mres.matcher)
              /\ runs[w].pc = "loop"
                   => \E n \in 0..Len(runs[w].input) :
                         runs[w].matches
                            = ExpectedMatches(Take(runs[w].input, n), mres.matcher)

\* C12 witness: one call has returned a match while the other, over a different
\* stream, has tested its first line without a match and is still running
C12_Witness ==
    /\ pc = "ready"
    /\ runs[1].pc = "done" /\ runs[1].result.tag = "Ok"
    /\ runs[1].result.matches # <<>>
    /\ runs[2].pc = "loop" /\ runs[2].idx = 1 /\ runs[2].matches = <<>>
    /\ runs[2].rpos < Len(runs[2].input)

(***************************************************************************)
(* Claims on a repeated search (specification RerunSpec).                  *)
(***************************************************************************)
\* C13: when search_lines has run twice over the same bytes with the same
\* Matcher and no read of either run failed, the second run returns what the
\* first returned: the same records in the same order, or the same decoding
\* error.
C13_SecondRunSameResult ==
    (pc = "done" /\ prev # None /\ ~ReadFailed
       /\ ~(prev.tag = "Err" /\ prev.kind # "InvalidData"))
        => result = prev

\* C13 witness: both runs have returned, with two matches each
C13_Witness ==
    /\ pc = "done" /\ prev # None
    /\ prev.tag = "Ok" /\ Len(prev.matches) = 2
    /\ result.tag = "Ok" /\ Len(result.matches) = 2

(***************************************************************************)
(* Claims on the content of a match (specification Spec).                  *)
(***************************************************************************)
\* the line terminators: none (last line), "\n", "\r\n"
Terminators == {<<>>, <<LF>>, <<CR, LF>>}

\* C14: every returned content holds no "\n" and is the text of its line as it
\* stands in the input, the line's terminator taken off its end; and when the
\* input does not end with "\n", its last line is still a line: it is tested,
\* it has the last number, and it is the last record returned if it matches.
C14_ContentIsLineWithoutTerminator ==
    /\ (Returned /\ result.tag = "Ok")
         => \A k \in 1..Len(result.matches) :
               LET r    == result.matches[k]
                   span == FromUtf8(LineSpan(input, r.line_number))
               IN  /\ \A i \in 1..Len(r.content) : r.content[i] # LF
                   /\ span.ok
                   /\ \E t \in Terminators : span.chars = r.content \o t
    /\ (Returned /\ ~ReadFailed /\ Decodable(input)
          /\ Len(input) > 0 /\ input[Len(input)] # LF)
         => LET n == NumLines(input) IN
            /\ result.tag = "Ok"
            /\ Len(tested) = n
            /\ tested[n] = FromUtf8(LineSpan(input, n)).chars
            /\ IsMatch(mres.matcher, tested[n])
                 => /\ result.matches # <<>>
                    /\ result.matches[Len(result.matches)]
                          = [line_number |-> n, content |-> tested[n]]

\* C14 witness: the input has a terminated line that did not match and ends
\* with a line without "\n", which is returned with the last number
C14_Witness ==
    /\ Returned /\ result.tag = "Ok"
    /\ Len(input) > 0 /\ input[Len(input)] # LF
    /\ NumLines(input) = 2
    /\ result.matches = <<[line_number |-> 2, content |-> tested[2]]>>
    /\ tested[2] # <<>>

(***************************************************************************)
(* Claims on regular expression matching (specification MatcherSpec).      *)
(***************************************************************************)
\* the expression holds ^ or $
RECURSIVE Anchored(_)
Anchored(ast) ==
    \/ ast.t \in {"bol", "eol"}
    \/ ast.t = "group" /\ \E k \in 1..Len(ast.asts) : Anchored(ast.asts[k])
    \/ ast.t = "rep" /\ Anchored(ast.sub)

NoAnchors(asts) == \A k \in 1..Len(asts) : ~Anchored(asts[k])

\* the expression matches the string u from its first char to its last
FullMatch(asts, u) == Len(u) \in EndsSeq(asts, 1, u, {0}, FALSE)

\* the compiled pattern without the (?i) that Matcher::new put in front
Body(m) == IF args.ignore_case THEN Tail(m.regex) ELSE m.regex
Flag(m) == IF args.ignore_case THEN <<m.regex[1]>> ELSE <<>>

\* C15: a regex Matcher matches a line iff the pattern matches some substring
\* of it.  For a pattern without ^ and $: the line matches iff some substring
\* of the line, taken by itself, is matched from end to end.  A leading ^
\* restricts that substring to the prefixes of the line, a trailing $ to its
\* suffixes, both to the line itself.
C15_RegexIsUnanchored ==
    (pc = "probed" /\ mres.matcher.variant = "Regex") =>
        LET body == Body(mres.matcher)
            flag == Flag(mres.matcher)
            n    == Len(line)
            bol  == body # <<>> /\ body[1].t = "bol"
            eol  == body # <<>> /\ body[Len(body)].t = "eol"
            core == SubSeq(body, IF bol THEN 2 ELSE 1,
                                 IF eol THEN Len(body) - 1 ELSE Len(body))
        IN  NoAnchors(core) =>
              (answer <=> \E i \in 0..n : \E j \in i..n :
                             /\ bol => i = 0
                             /\ eol => j = n
                             /\ FullMatch(flag \o core, SubSeq(line, i + 1, j)))

\* C15 witness: a pattern without anchors matches a line that it does not match
\* from end to end
C15_Witness ==
    /\ pc = "probed" /\ mres.matcher.variant = "Regex" /\ Len(args.pattern) >= 3
    /\ NoAnchors(mres.matcher.regex)
    /\ answer /\ ~FullMatch(mres.matcher.regex, line)

\* the re-casings of a line over the letters of the probed lines
Recasings(s) == {t \in BoundedSeq(RegexLineAlphabet, Len(s)) : SameButForCase(s, t)}

RECURSIVE Negated(_)
Negated(cls) == cls.neg \/ \E k \in 1..Len(cls.subs) : Negated(cls.subs[k])

\* the expression holds a negated class, or a flag group that clears i
RECURSIVE Unfoldable(_)
Unfoldable(ast) ==
    \/ ast.t = "class" /\ Negated(ast)
    \/ ast.t \in {"flags", "group"} /\ ast.state = "off"
    \/ ast.t = "group" /\ \E k \in 1..Len(ast.asts) : Unfoldable(ast.asts[k])
    \/ ast.t = "rep" /\ Unfoldable(ast.sub)

Foldable(asts) == \A k \in 1..Len(asts) : ~Unfoldable(asts[k])

FlagOff == <<Meta.lparen, Meta.quest, Meta.dash, Meta.flag_i, Meta.rparen>>

\* C16 as the specification states it: for every pattern p and line s, if
\* Matcher::new(p, false, true) matches s then Matcher::new(p, true, true)
\* matches every re-casing of s.
C16_FoldingCoversEveryPattern ==
    (pc = "probed" /\ args.use_regex /\ ~args.ignore_case /\ answer)
        => \A t \in Recasings(line) :
              IsMatch(MatcherNew(args.pattern, TRUE, TRUE).matcher, t)

\* C16, amended: the (?i) put in front folds the literals and the classes of
\* the whole pattern.  For a pattern with no negated class and no flag group
\* that clears i, if the case-sensitive Matcher matches a line then the
\* ignore_case Matcher matches every re-casing of it.  A flag group of the
\* pattern wins over the prefix: a pattern that begins with (?-i) is matched
\* by the ignore_case Matcher exactly as by the case-sensitive one.
C16_FoldingCoversFoldablePatterns ==
    (pc = "probed" /\ args.use_regex) =>
        /\ (~args.ignore_case /\ answer /\ Foldable(mres.matcher.regex))
             => \A t \in Recasings(line) :
                   IsMatch(MatcherNew(args.pattern, TRUE, TRUE).matcher, t)
        /\ (args.ignore_case /\ Len(args.pattern) > 5
              /\ Take(args.pattern, 5) = FlagOff)
             => answer = IsMatch(MatcherNew(args.pattern, FALSE, TRUE).matcher, line)

\* C16 witness: the pattern "[Aa]a", a class and a literal with their own case,
\* matches the line "Aa", whose re-casing "aA" it does not match itself
C16_Witness ==
    /\ pc = "probed" /\ args.use_regex /\ ~args.ignore_case /\ answer
    /\ args.pattern = <<Meta.lbrack, 65, 97, Meta.rbrack, 97>>
    /\ line = <<65, 97>>
    /\ ~IsMatch(mres.matcher, <<97, 65>>)

(***************************************************************************)
(* Claims on the command line program (specification CliSpec).             *)
(***************************************************************************)
\* C17: the process exits with 0 when the file opened, the pattern compiled
\* and the search returned Ok, with nothing on standard error, and with
\* nothing on standard output when no line matched; it exits with a code
\* other than 0 and "Could not read file" on standard error when the file
\* does not open, and with a code other than 0 and "Invalid regex pattern" on
\* standard error when the file opens and the -r pattern does not compile.
C17_ExitCodes ==
    pc = "exited" =>
        /\ (opened /\ mres.tag = "Ok" /\ result.tag = "Ok")
             => /\ exit = 0 /\ stderr = <<>>
                /\ result.matches = <<>> => stdout = <<>>
        /\ ~opts.exists
             => exit > 0 /\ stderr # <<>> /\ stderr[1] = "Could not read file"
        /\ (opts.exists /\ args.use_regex /\ Malformed(args.pattern))
             => exit > 0 /\ stderr # <<>> /\ stderr[1] = "Invalid regex pattern"
        /\ exit = 0 => (opened /\ mres.tag = "Ok" /\ result.tag = "Ok")

\* C17 witness: a file of two lines opened, the pattern compiled, no line
\* matched, and the process has exited with 0
C17_Witness ==
    /\ pc = "exited" /\ exit = 0
    /\ NumLines(input) = 2 /\ result.matches = <<>> /\ stdout = <<>>

\* the k-th line of standard output, without its "\n"
StdoutLine(k) == LET span == LineSpan(stdout, k) IN SubSeq(span, 1, Len(span) - 1)

\* C18: when the process has exited with 0, standard output holds one line
\* per match, each ended by "\n", in the order of the result: line k is
\* "<line_number>:<content>" of match k with -n and "<content>" without it;
\* and the matches printed are those of the search, which the flag has no part
\* in.
C18_OneLinePerMatch ==
    (pc = "exited" /\ exit = 0) =>
        /\ stdout = <<>> \/ stdout[Len(stdout)] = LF
        /\ LFCount(stdout) = Len(result.matches)
        /\ \A k \in 1..Len(result.matches) :
              LET m == result.matches[k] IN
              StdoutLine(k) = IF opts.line_numbers
                              THEN Digits(m.line_number) \o <<Meta.colon>> \o m.content
                              ELSE m.content
        /\ (~ReadFailed /\ Decodable(input))
             => result.matches = ExpectedMatches(input, mres.matcher)

\* C18 witness: two matches printed without -n, the second from line 3
C18_Witness ==
    /\ pc = "exited" /\ exit = 0 /\ ~opts.line_numbers
    /\ Len(result.matches) = 2 /\ result.matches[2].line_number = 3
    /\ LFCount(stdout) = 2

\* C19: nothing is written to standard output before search_lines has
\* returned Ok: while the search runs standard output is empty, and when the
\* search has failed it stays empty to the exit, whatever had matched.
C19_NothingPrintedBeforeSearchReturns ==
    /\ stdout # <<>> => (pc \in {"done", "exited"} /\ result.tag = "Ok")
    /\ printed > 0 => result.tag = "Ok"
    /\ result.tag = "Err" => stdout = <<>>

\* C19 witness: the search failed on a line that does not decode after a line
\* had matched, and the process has exited with nothing printed
C19_Witness ==
    /\ pc = "exited" /\ result.tag = "Err" /\ result.kind = "InvalidData"
    /\ matches # <<>> /\ stdout = <<>> /\ exit = 1

\* C20: the pattern is compiled only once the file is open.  When the file
\* does not open the process fails with "Could not read file" and Matcher::new
\* is never called, a -r pattern that does not compile included; "Invalid regex
\* pattern" is reported only on runs where the file opened.
C20_OpenBeforeCompile ==
    /\ mres # None => opened
    /\ (~opts.exists /\ pc = "exited")
         => /\ stderr # <<>> /\ stderr[1] = "Could not read file"
            /\ exit = 1 /\ mres = None
    /\ (stderr # <<>> /\ stderr[1] = "Invalid regex pattern") => opened

\* C20 witness: the file does not open and the -r pattern does not compile;
\* the process has exited on the file
C20_Witness ==
    /\ pc = "exited" /\ ~opts.exists
    /\ args.use_regex /\ Malformed(args.pattern)
    /\ stderr[1] = "Could not read file" /\ mres = None

(***************************************************************************)
(* Claims on the binary's copies (specification EquivSpec).                *)
(***************************************************************************)
\* C21: called with the same pattern and flags, the binary's Matcher::new
\* returns what the library's returns, Ok with the same Matcher or Err with
\* the same diagnostic; the binary's is_match answers as the library's on
\* every line the library tested; and over the same bytes the binary's
\* search_lines returns what the library's returned: the same records in the
\* same order, or the same decoding error.
C21_BinaryCopiesAgree ==
    /\ bin.mres # None => bin.mres = mres
    /\ (bin.mres # None /\ bin.mres.tag = "Ok" /\ mres.tag = "Ok")
         => \A k \in 1..Len(tested) :
               BinIsMatch(bin.mres.matcher, tested[k]) = IsMatch(mres.matcher, tested[k])
    /\ (bin.pc = "done" /\ bin.mres.tag = "Ok") => bin.result = result

\* C21 witness: with ignore_case set, both calls have returned the same two
\* matches over an input with a line that did not match
C21_Witness ==
    /\ args.ignore_case
    /\ bin.pc = "done" /\ bin.result # None /\ bin.result.tag = "Ok"
    /\ Len(bin.result.matches) = 2 /\ Len(tested) = 3
    /\ bin.result = result

(***************************************************************************)
(* Claims on ignore_case and literal matches (specification MatcherSpec).  *)
(***************************************************************************)
\* C22: turning on ignore_case never loses a literal match: if the literal
\* Matcher built from p without ignore_case matches the line, the literal
\* Matcher built from p with ignore_case matches it too.
C22_IgnoreCaseKeepsLiteralMatches ==
    (pc = "probed" /\ ~args.use_regex /\ ~args.ignore_case /\ answer)
        => IsMatch(MatcherNew(args.pattern, TRUE, FALSE).matcher, line)

(***************************************************************************)
(* Claims on "\r\n" (specification Spec).                                  *)
(***************************************************************************)
\* the decoded text of line k with its terminator
SpanText(k) == FromUtf8(LineSpan(input, k)).chars

EndsWithCRLF(t) == Len(t) >= 2 /\ t[Len(t)] = LF /\ t[Len(t) - 1] = CR

\* the bytes with every "\r\n" turned into "\n"
RECURSIVE ToLF(_)
ToLF(b) ==
    IF b = <<>> THEN <<>>
    ELSE IF Len(b) >= 2 /\ b[1] = CR /\ b[2] = LF THEN ToLF(Tail(b))
    ELSE <<b[1]>> \o ToLF(Tail(b))

\* no "\r\n" in the bytes: "\n" is the only terminator
OnlyLF(b) == \A i \in 1..(Len(b) - 1) : ~(b[i] = CR /\ b[i + 1] = LF)

\* what a search finds in bytes whose only terminator is "\n"
ExpectedOfLF(b, m) ==
    SelectSeq([k \in 1..NumLines(b) |->
                  LET t == FromUtf8(LineSpan(b, k)).chars IN
                  [line_number |-> k,
                   content |-> IF EndsWith(t, LF) THEN Take(t, Len(t) - 1) ELSE t]],
              LAMBDA r : IsMatch(m, r.content))

\* C23 as the specification states it: the text handed to is_match for a line
\* that ends with "\r\n" never ends in "\r", and so no such content; an input
\* with "\r\n" terminators gives the numbers and contents of the same input
\* with "\n" terminators; and an input that ends with "\n" has as many lines as
\* it has "\n".
C23_CRLFNeverLeavesCR ==
    (mres.tag = "Ok" /\ pc \in {"loop", "done"}) =>
        /\ \A k \in 1..Len(tested) :
              EndsWithCRLF(SpanText(k)) => ~EndsWith(tested[k], CR)
        /\ \A k \in 1..Len(matches) :
              EndsWithCRLF(SpanText(matches[k].line_number))
                 => ~EndsWith(matches[k].content, CR)
        /\ (pc = "done" /\ ~ReadFailed /\ Decodable(input))
             => /\ result.tag = "Ok"
                /\ result.matches = ExpectedOfLF(ToLF(input), mres.matcher)
                /\ EndsWith(input, LF) => Len(tested) = LFCount(input)

\* C23, amended: of a line that ends with "\r\n" exactly that "\r" and the
\* "\n" are taken off, of a line that ends with "\n" alone the "\n"; so the
\* text handed to is_match, and a content, ends in "\r" only when the line
\* ends with "\r\r\n" or is a last line without "\n".  When turning "\r\n"
\* into "\n" leaves no "\r" before a "\n" (no line's text ends in "\r"), the
\* input gives the numbers and contents of the input with "\n" terminators.
\* An input that ends with "\n" has as many lines as it has "\n".
C23_OneCRGoesWithTheNewline ==
    (mres.tag = "Ok" /\ pc \in {"loop", "done"}) =>
        /\ \A k \in 1..Len(tested) :
              LET t == SpanText(k) IN
              /\ EndsWithCRLF(t) => t = tested[k] \o <<CR, LF>>
              /\ (EndsWith(t, LF) /\ ~EndsWithCRLF(t)) => t = tested[k] \o <<LF>>
              /\ EndsWith(tested[k], CR)
                   => \/ ~EndsWith(t, LF)
                      \/ (Len(t) >= 3 /\ EndsWithCRLF(t) /\ t[Len(t) - 2] = CR)
        /\ \A k \in 1..Len(matches) :
              matches[k].content = tested[matches[k].line_number]
        /\ (pc = "done" /\ ~ReadFailed /\ Decodable(input))
             => /\ result.tag = "Ok"
                /\ OnlyLF(ToLF(input))
                     => result.matches = ExpectedOfLF(ToLF(input), mres.matcher)
                /\ EndsWith(input, LF) => Len(tested) = LFCount(input)

\* C23 witness: an input of two lines, the first ended by "\r\n" and returned
\* without it, the second by "\n"; no third, empty line was tested
C23_Witness ==
    /\ Returned /\ result.tag = "Ok" /\ ~ReadFailed
    /\ Len(input) = 4 /\ input[2] = CR /\ input[3] = LF /\ input[4] = LF
    /\ Len(tested) = 2
    /\ result.matches # <<>> /\ result.matches[1] = [line_number |-> 1, content |-> <<97>>]

====
